---- MODULE Spec2Model ----
(***************************************************************************)
(* Model of the memcloud deployment backend.                               *)
(*                                                                         *)
(*   backend/app/api/v1/endpoints/deployment.py                            *)
(*       start_deployment, execute_deployment, add_step, complete_step,    *)
(*       broadcast_update, deployment_websocket                            *)
(*   backend/app/api/v1/endpoints/instances.py                             *)
(*       delete_instance                                                   *)
(*   backend/app/services/memmachine_deployer.py                           *)
(*       _store_secret, _deploy_cloud_sql, _wait_for_sql_operation,        *)
(*       _deploy_neo4j, _deploy_memmachine                                 *)
(*                                                                         *)
(* One deployment id is followed from the POST /deploy request to the end  *)
(* of its background task.  Every await of the task is an interleaving     *)
(* point: subscribers connect, clients close their sockets and             *)
(* delete_instance runs between the task's steps.  The outcome of every    *)
(* external call (secret store, control plane, durable store, socket send) *)
(* is chosen nondeterministically.                                         *)
(***************************************************************************)
EXTENDS Integers, Sequences, FiniteSets, TLC

(***************************************************************************)
(* Bounds of the model                                                     *)
(***************************************************************************)
\* number of websocket clients that may connect to the deployment
NumChannels == 2

\* The number of polls of the Cloud SQL operation that find it pending before
\* the loop clock is past the timeout.  A pass of the loop lasts the sleep plus
\* the blocking control-plane calls; the model gives every pass the same
\* duration, the shortest multiple of the sleep for which MaxPolls passes
\* exceed the timeout (with MaxPolls = 61 a pass lasts exactly one sleep).
MaxPolls == 2

\* the number of ticks the clock makes while the run is followed
MaxTick == 2

\* number of start_instance / stop_instance requests that may be in flight
\* for the instance at the same time
NumScalers == 2

Channels == 1..NumChannels

Scalers == 1..NumScalers

\* the deployment ids followed where more than one deployment runs
Ids == {"A", "B"}

(***************************************************************************)
(* Program constants                                                       *)
(***************************************************************************)
\* _wait_for_sql_operation(timeout=600), seconds
SqlTimeout == 600
\* asyncio.sleep(10) between two polls of the Cloud SQL operation
SqlPollInterval == 10

\* _validate_deployment: for attempt in range(10)
HealthAttempts == 10

\* the time one pass of the polling loop takes
PassDuration == SqlPollInterval * (((SqlTimeout \div SqlPollInterval) \div MaxPolls) + 1)

\* the requests of the model: no neo4j_* field, the URI alone, all three
Requests ==
    {[uri |-> FALSE, user |-> FALSE, password |-> FALSE],
     [uri |-> TRUE,  user |-> FALSE, password |-> FALSE],
     [uri |-> TRUE,  user |-> TRUE,  password |-> TRUE]}

\* the calls of deploy_complete_stack: the one POST /instances/deploy makes,
\* which passes no neo4j_* argument, and calls made with the URI alone, with
\* URI and user, and with all three
StackCalls ==
    {[uri |-> FALSE, user |-> FALSE, password |-> FALSE, http |-> TRUE],
     [uri |-> TRUE,  user |-> FALSE, password |-> FALSE, http |-> FALSE],
     [uri |-> TRUE,  user |-> TRUE,  password |-> FALSE, http |-> FALSE],
     [uri |-> TRUE,  user |-> TRUE,  password |-> TRUE,  http |-> FALSE]}

\* InstanceStatus
InstanceStatus == {"creating", "running", "stopped", "failed", "deleting", "deleted"}

\* The resources a deployment creates in the cloud project, by kind.  Their
\* names are all derived from the deployment id.
OpenaiSecret   == "openai-key"
PostgresSecret == "postgres-pass"
Neo4jSecret    == "neo4j-pass"
AuraSecret     == "neo4j-aura-pass"
CloudSql       == "cloud-sql"
Neo4jService   == "neo4j-service"
MemService     == "memmachine-service"

Resources ==
    {OpenaiSecret, PostgresSecret, Neo4jSecret, AuraSecret, CloudSql, Neo4jService, MemService}

\* parameters of MemMachineDeployer._deploy_memmachine (self excluded)
DeployMemmachineParams ==
    {"instance_id", "postgres_ip", "postgres_secret", "neo4j_bolt_url",
     "neo4j_secret", "openai_secret", "user_id"}

\* keyword arguments execute_deployment passes to _deploy_memmachine
DeployMemmachineCallKeywords ==
    {"instance_id", "postgres_ip", "postgres_secret", "neo4j_bolt_url",
     "neo4j_secret", "openai_secret", "user_id", "neo4j_connection_url"}

\* Python binds keyword arguments to parameters before the body runs; a
\* keyword that names no parameter raises TypeError at the call.
DeployMemmachineCallBinds == DeployMemmachineCallKeywords \subseteq DeployMemmachineParams

(***************************************************************************)
(* State                                                                   *)
(***************************************************************************)
VARIABLES
    pc,          \* position of the deployment: the request, then the background task
    req,         \* DeploymentRequest: which neo4j_* fields are given
    registered,  \* deployment_id in active_deployments
    steps,       \* DeploymentStatus.steps
    progress,    \* DeploymentStatus.overall_progress
    success,     \* DeploymentStatus.success
    endpoints,   \* DeploymentStatus.endpoints: its set of keys ({} = None)
    inst,        \* the Instance row of the deployment in the durable store
    cloud,       \* resources existing in the cloud project
    deleteCalls, \* resources for which a delete call was issued
    elapsed,     \* _wait_for_sql_operation: loop time - start_time
    runErr,      \* the exception the task caught ("none" while none)
    extFail,     \* some cloud or durable-store call of the task has failed
    logged,      \* error events written to the log
    conns,       \* deployment_connections[deployment_id]
    chan,        \* per websocket: not connected, open, slow or closed
    wire,        \* the message most recently put on a socket, and the socket
    bidx,        \* broadcast_update: position of the list iterator
    bret,        \* where the task continues when broadcast_update returns
    pubLive,     \* the sockets registered when the current publish began
    got,         \* the sockets that received the current publish
    sendFailed,  \* the sockets whose send raised in the current publish
    dpc,         \* position of the delete_instance request
    dq,          \* delete_instance: the named resources still to be deleted
    deleted_resources, \* delete_instance: deleted_resources
    deletion_errors,   \* delete_instance: deletion_errors
    dresp,       \* HTTP status of the response to the latest DELETE (0 = none yet)
    createCalls, \* per resource: the create calls the run has issued for it
    now,         \* datetime.utcnow(), in ticks
    reply,       \* the answer to the latest GET /{deployment_id}/status
    available,   \* instances.py: DEPLOYER_AVAILABLE
    kpc,         \* position of the POST /instances/deploy request
    kreq,        \* deploy_complete_stack: which neo4j_* arguments are given
    kcloud,      \* resources deploy_complete_stack has created
    kcreates,    \* per resource: the create calls deploy_complete_stack issued
    kattempt,    \* _validate_deployment: attempts made
    ksleeps,     \* _validate_deployment: inter-attempt sleeps taken
    kpassed,     \* _validate_deployment: an attempt got a 200 response
    kinst,       \* the Instance deploy_complete_stack returned
    kresp,       \* HTTP status of the response to POST /instances/deploy (0 = none yet)
    sqlStatus,   \* _wait_for_sql_operation: what the latest poll of the operation returned
    active_deployments,     \* per deployment id: its DeploymentStatus, where several ids are followed
    deployment_connections, \* per deployment id: its list of websockets
    mpc,         \* per deployment id: position of its request and background task
    mreq,        \* per deployment id: which neo4j_* fields its request gives
    sockId,      \* per websocket: the deployment id of the URL it connected to
    inbox,       \* per websocket: the ids of the deployments whose status it was sent
    spc,         \* per request slot: position of the start_instance / stop_instance request
    sop,         \* per request slot: which of the two its latest request is ("none" before the first)
    sresp,       \* per request slot: HTTP status of the latest response (0 = none yet)
    supdated,    \* per request slot: the control-plane update of its request has succeeded
    minReplicas  \* min_instance_count of the application service

vars == <<pc, req, registered, steps, progress, success, endpoints, inst, cloud,
          deleteCalls, elapsed, runErr, extFail, logged, conns, chan, wire,
          bidx, bret, pubLive, got, sendFailed, dpc, dq, deleted_resources,
          deletion_errors, createCalls, now, reply, available, kpc, kreq, kcloud,
          kcreates, kattempt, ksleeps, kpassed, kinst, kresp, sqlStatus,
          active_deployments, deployment_connections, mpc, mreq, sockId, inbox,
          spc, sop, sresp, supdated, minReplicas, dresp>>

runVars   == <<pc, req, registered, steps, progress, success, endpoints, cloud,
               elapsed, runErr, extFail>>
bcastVars == <<bidx, bret, pubLive, got, sendFailed>>
delVars   == <<dpc, dq, deleted_resources, deletion_errors, dresp>>
scaleVars == <<spc, sop, sresp, supdated, minReplicas>>
multiVars == <<active_deployments, deployment_connections, mpc, mreq, sockId, inbox>>
stackVars == <<available, kpc, kreq, kcloud, kcreates, kattempt, ksleeps, kpassed, kinst, kresp>>

NoMsg == [none |-> TRUE]

\* websocket.send_json(msg) on socket ws has delivered msg
Sent(ws, msg) == [to |-> ws, msg |-> msg]

\* DeploymentStatus.dict(): what a status query returns and a socket is sent
Snapshot ==
    [steps |-> steps, progress |-> progress, success |-> success, endpoints |-> endpoints]

\* DeploymentStep.started_at / completed_at = None
NoTime == -1

\* no create call issued yet
NoCalls == [r \in Resources |-> 0]

BumpRepeated(calls, r) == [calls EXCEPT ![r] = @ + 2]

\* one more create call for resource r
Bump(calls, r) == [calls EXCEPT ![r] = @ + 1]

\* no answer given yet
NoReply == [code |-> 0]

\* an id that is not a key of active_deployments
NoStatus == [none |-> TRUE]

NoInstance ==
    [exists |-> FALSE, status |-> "creating", error |-> "none", names |-> {},
     deleted_at |-> FALSE, health |-> "unknown", min_instances |-> 0]

\* The state when the application has started: nothing is registered, no
\* request is in progress.
InitBase ==
    /\ pc = "idle"
    /\ req = [uri |-> FALSE, user |-> FALSE, password |-> FALSE]
    /\ registered = FALSE
    /\ steps = <<>>
    /\ progress = 0
    /\ success = FALSE
    /\ endpoints = {}
    /\ deleteCalls = {}
    /\ elapsed = 0
    /\ runErr = "none"
    /\ extFail = FALSE
    /\ logged = {}
    /\ conns = <<>>
    /\ chan = [c \in Channels |-> "none"]
    /\ wire = NoMsg
    /\ bidx = 0
    /\ bret = "idle"
    /\ pubLive = {}
    /\ got = {}
    /\ sendFailed = {}
    /\ dpc = "idle"
    /\ dq = <<>>
    /\ deleted_resources = <<>>
    /\ deletion_errors = <<>>
    /\ createCalls = NoCalls
    /\ now = 0
    /\ reply = NoReply
    /\ kpc = "idle"
    /\ kreq = [uri |-> FALSE, user |-> FALSE, password |-> FALSE, http |-> TRUE]
    /\ kcloud = {}
    /\ kcreates = NoCalls
    /\ kattempt = 0
    /\ ksleeps = 0
    /\ kpassed = FALSE
    /\ kinst = NoInstance
    /\ kresp = 0
    /\ sqlStatus = "none"
    /\ active_deployments = [d \in Ids |-> NoStatus]
    /\ deployment_connections = [d \in Ids |-> <<>>]
    /\ mpc = [d \in Ids |-> "idle"]
    /\ mreq = [d \in Ids |-> [uri |-> FALSE, user |-> FALSE, password |-> FALSE]]
    /\ sockId = [c \in Channels |-> "none"]
    /\ inbox = [c \in Channels |-> {}]
    /\ spc = [i \in Scalers |-> "idle"]
    /\ sop = [i \in Scalers |-> "none"]
    /\ sresp = [i \in Scalers |-> 0]
    /\ supdated = [i \in Scalers |-> FALSE]
    /\ minReplicas = 0
    /\ dresp = 0

\* no Instance row yet and no resource in the cloud project
InitCommon ==
    /\ InitBase
    /\ inst = NoInstance
    /\ cloud = {}

\* deployment.py imports MemMachineDeployer unconditionally: where its
\* endpoints are served the import has succeeded.
Init ==
    /\ InitCommon
    /\ available = TRUE


(***************************************************************************)
(* Helpers                                                                 *)
(***************************************************************************)
Range(s) == {s[i] : i \in 1..Len(s)}

\* list.remove(x): drops the first occurrence of x
RemoveFirst(s, x) ==
    LET hits == {i \in 1..Len(s) : s[i] = x}
    IN  IF hits = {} THEN s
        ELSE LET k == CHOOSE i \in hits : \A j \in hits : i <= j
             IN  SubSeq(s, 1, k - 1) \o SubSeq(s, k + 1, Len(s))

UsesAuraNever(r) == FALSE

\* the request carries all three external graph-DB fields
\* (if neo4j_uri and neo4j_user and neo4j_password)
UsesAura(r) == r.uri /\ r.user /\ r.password

Stage3StepIdCopied(r) == "postgres-create"

\* the id of the step execute_deployment adds for stage 3
Stage3StepId(r) == IF UsesAura(r) THEN "neo4j-setup" ELSE "neo4j-deploy"

\* the secret execute_deployment stores for stage 3
Stage3Secret(r) == IF UsesAura(r) THEN AuraSecret ELSE Neo4jSecret

\* status.overall_progress = ... after the step with this id is completed
ProgressAfterSlip(id) ==
    CASE id = "secret-openai"     -> 5
      [] id = "postgres-create"   -> 3
      [] id = "neo4j-setup"       -> 55
      [] id = "neo4j-deploy"      -> 55
      [] id = "memmachine-deploy" -> 85
      [] id = "health-check"      -> 95
      [] id = "finalize"          -> 100

ProgressAfter(id) ==
    CASE id = "secret-openai"     -> 5
      [] id = "postgres-create"   -> 35
      [] id = "neo4j-setup"       -> 55
      [] id = "neo4j-deploy"      -> 55
      [] id = "memmachine-deploy" -> 85
      [] id = "health-check"      -> 95
      [] id = "finalize"          -> 100

\* DeploymentStep(id=..., status="in_progress") after add_step appended it
NewStep(id) ==
    [id |-> id, status |-> "in_progress", details |-> {},
     started_at |-> NoTime, completed_at |-> NoTime]

AddStepFirst(ss, id) == <<[NewStep(id) EXCEPT !.started_at = now]>> \o ss

\* add_step: step.started_at = datetime.utcnow(); deployment.steps.append(step)
AddStep(ss, id) == Append(ss, [NewStep(id) EXCEPT !.started_at = now])

CompleteStepSkipped(ss, id, details) == ss

\* complete_step: the first step with this id becomes completed, with details
CompleteStepNoStamp(ss, id, details) ==
    LET hits == {i \in 1..Len(ss) : ss[i].id = id}
    IN  IF hits = {} THEN ss
        ELSE LET k == CHOOSE i \in hits : \A j \in hits : i <= j
             IN  [ss EXCEPT ![k].status = "completed", ![k].details = details]

CompleteStep(ss, id, details) ==
    LET hits == {i \in 1..Len(ss) : ss[i].id = id}
    IN  IF hits = {} THEN ss
        ELSE LET k == CHOOSE i \in hits : \A j \in hits : i <= j
             IN  [ss EXCEPT ![k].status = "completed", ![k].completed_at = now,
                            ![k].details = details]

(***************************************************************************)
(* broadcast_update                                                        *)
(***************************************************************************)
\* broadcast_update is entered: the for loop starts on the list as it is now.
\* With no socket in the list the call returns without suspending.
EnterBroadcast(ret) ==
    /\ pubLive' = Range(conns)
    /\ got' = {}
    /\ sendFailed' = {}
    /\ IF conns = <<>>
         THEN /\ pc' = ret
              /\ bidx' = 0
              /\ bret' = bret
         ELSE /\ pc' = "bcast"
              /\ bidx' = 1
              /\ bret' = ret

\* the position of the list iterator after the body ran for position i:
\* the iterator has advanced whether or not the body removed an element
NextIndex(i, removed) == i + 1

\* One pass of the loop body: await websocket.send_json(status.dict()).  The
\* send to an open socket delivers the snapshot; the send to a closed socket
\* raises and the socket is removed from the list that is being iterated; the
\* send to a slow socket does not complete, so the loop stays where it is.
BroadcastSend ==
    /\ pc = "bcast"
    /\ bidx <= Len(conns)
    /\ LET ws == conns[bidx]
           ok == chan[ws] = "open"
           newConns == IF ok THEN conns ELSE RemoveFirst(conns, ws)
           newIdx == NextIndex(bidx, ~ok)
       IN  /\ chan[ws] \in {"open", "closed"}
           /\ conns' = newConns
           /\ got' = IF ok THEN got \cup {ws} ELSE got
           /\ sendFailed' = IF ok THEN sendFailed ELSE sendFailed \cup {ws}
           /\ wire' = IF ok THEN Sent(ws, Snapshot) ELSE wire
           /\ IF newIdx > Len(newConns)
                THEN /\ pc' = bret
                     /\ bidx' = 0
                ELSE /\ pc' = "bcast"
                     /\ bidx' = newIdx
    /\ UNCHANGED <<req, registered, steps, progress, success, endpoints, inst, cloud,
                   deleteCalls, elapsed, runErr, extFail, logged, chan, bret, pubLive, delVars>>
    /\ UNCHANGED <<createCalls, now, reply, stackVars, sqlStatus, multiVars, scaleVars>>

(***************************************************************************)
(* deployment_websocket                                                    *)
(***************************************************************************)
\* the message deployment_websocket sends to a socket that has just been
\* registered, NoMsg when nothing is delivered
InitialMessageNone(c, mode) == wire

InitialMessage(c, mode) == IF registered /\ mode = "open" THEN Sent(c, Snapshot) ELSE wire

\* A client connects to /{deployment_id}/ws: the socket is accepted, appended
\* to the list of the deployment and sent the current status.  The client is
\* open (it reads what it is sent), slow (its sends do not complete) or has
\* closed already (its sends raise).
Subscribe(c) ==
    /\ registered
    /\ chan[c] = "none"
    /\ \E mode \in {"open", "slow", "closed"} :
          /\ chan' = [chan EXCEPT ![c] = mode]
          /\ wire' = InitialMessage(c, mode)
    /\ conns' = Append(conns, c)
    /\ UNCHANGED <<runVars, bcastVars, inst, deleteCalls, logged, delVars>>
    /\ UNCHANGED <<createCalls, now, reply, stackVars, sqlStatus, multiVars, scaleVars>>

\* the client of a socket goes away: every later send to it raises
Disconnect(c) ==
    /\ chan[c] \in {"open", "slow"}
    /\ chan' = [chan EXCEPT ![c] = "closed"]
    /\ UNCHANGED <<runVars, bcastVars, inst, deleteCalls, logged, conns, wire, delVars>>
    /\ UNCHANGED <<createCalls, now, reply, stackVars, sqlStatus, multiVars, scaleVars>>


(***************************************************************************)
(* start_deployment                                                        *)
(***************************************************************************)
InitialStatusSlip ==
    [steps |-> <<>>, progress |-> 2, success |-> FALSE, endpoints |-> {}]

\* DeploymentStatus(deployment_id=..., overall_progress=0, ...), the other
\* fields at their defaults
InitialStatus ==
    [steps |-> <<>>, progress |-> 0, success |-> FALSE, endpoints |-> {}]

AfterCommitIgnored(dbOk) == "s1_add"

\* where control is after await db.commit(): on the next statement, or out of
\* the handler with the exception the commit raised
AfterCommit(dbOk) == IF dbOk THEN "s1_add" ELSE "rejected"

\* POST /deploy.  The Instance row is committed first; when the commit raises
\* the request fails before the status is registered and the task created.
StartDeployment ==
    /\ pc = "idle"
    /\ available
    /\ \E r \in Requests, dbOk \in BOOLEAN :
          /\ req' = r
          /\ inst' = IF dbOk
                       THEN [NoInstance EXCEPT !.exists = TRUE, !.status = "creating"]
                       ELSE inst
          /\ IF AfterCommit(dbOk) = "s1_add"
               THEN /\ registered' = TRUE
                    /\ steps' = InitialStatus.steps
                    /\ progress' = InitialStatus.progress
                    /\ success' = InitialStatus.success
                    /\ endpoints' = InitialStatus.endpoints
                    /\ pc' = "s1_add"
               ELSE /\ registered' = FALSE
                    /\ pc' = "rejected"
                    /\ UNCHANGED <<steps, progress, success, endpoints>>
    /\ UNCHANGED <<cloud, deleteCalls, elapsed,
                   runErr, extFail, logged, conns, chan, wire, bcastVars, delVars>>
    /\ UNCHANGED <<createCalls, now, reply, stackVars, sqlStatus, multiVars, scaleVars>>

(***************************************************************************)
(* execute_deployment                                                      *)
(***************************************************************************)
\* an exception leaves the try block: control is at the except clause
Raise(err) ==
    /\ pc' = "except"
    /\ runErr' = err
    /\ extFail' = (extFail \/ err # "TypeError")
    /\ UNCHANGED <<bcastVars>>

\* MemMachineDeployer._store_secret: create_secret, then add_secret_version.
\* Either call may raise; when the second one does the secret exists already.
StoreSecretOutcomes == {"stored", "create_failed", "version_failed"}

CloudAfterStoreLost(name, outcome) == cloud

CloudAfterStore(name, outcome) ==
    IF outcome = "create_failed" THEN cloud ELSE cloud \cup {name}

\* STEP 1: the step is added
Stage1Begin ==
    /\ pc = "s1_add"
    /\ steps' = AddStep(steps, "secret-openai")
    /\ EnterBroadcast("s1_store")
    /\ UNCHANGED <<req, registered, progress, success, endpoints, inst, cloud,
                   deleteCalls, elapsed, runErr, extFail, logged, conns, chan, wire, delVars>>
    /\ UNCHANGED <<createCalls, now, reply, stackVars, sqlStatus, multiVars, scaleVars>>

\* STEP 1: the API key is stored and the step completed
Stage1Store ==
    /\ pc = "s1_store"
    /\ \E outcome \in StoreSecretOutcomes :
          /\ cloud' = CloudAfterStore(OpenaiSecret, outcome)
          /\ IF outcome = "stored"
               THEN /\ steps' = CompleteStep(steps, "secret-openai", {})
                    /\ EnterBroadcast("s2_add")
                    /\ UNCHANGED <<runErr, extFail>>
               ELSE /\ Raise("secret")
                    /\ steps' = steps
    /\ UNCHANGED <<req, registered, progress, success, endpoints, inst,
                   deleteCalls, elapsed, logged, conns, chan, wire, delVars>>
    /\ createCalls' = Bump(createCalls, OpenaiSecret)
    /\ UNCHANGED <<now, reply, stackVars, sqlStatus, multiVars, scaleVars>>

\* STEP 2: progress of step 1 is set and the step is added
Stage2Begin ==
    /\ pc = "s2_add"
    /\ progress' = ProgressAfter("secret-openai")
    /\ steps' = AddStep(steps, "postgres-create")
    /\ EnterBroadcast("s2_store")
    /\ UNCHANGED <<req, registered, success, endpoints, inst, cloud,
                   deleteCalls, elapsed, runErr, extFail, logged, conns, chan, wire, delVars>>
    /\ UNCHANGED <<createCalls, now, reply, stackVars, sqlStatus, multiVars, scaleVars>>

\* STEP 2: the generated password is stored
Stage2Store ==
    /\ pc = "s2_store"
    /\ \E outcome \in StoreSecretOutcomes :
          /\ cloud' = CloudAfterStore(PostgresSecret, outcome)
          /\ IF outcome = "stored"
               THEN /\ pc' = "s2_insert"
                    /\ UNCHANGED <<runErr, extFail, bcastVars>>
               ELSE Raise("secret")
    /\ UNCHANGED <<req, registered, steps, progress, success, endpoints, inst,
                   deleteCalls, elapsed, logged, conns, chan, wire, delVars>>
    /\ createCalls' = Bump(createCalls, PostgresSecret)
    /\ UNCHANGED <<now, reply, stackVars, sqlStatus, multiVars, scaleVars>>

\* _deploy_cloud_sql: instances().insert(...).execute()
Stage2Insert ==
    /\ pc = "s2_insert"
    /\ \E accepted \in BOOLEAN :
          IF accepted
            THEN /\ cloud' = cloud \cup {CloudSql}
                 /\ elapsed' = 0
                 /\ pc' = "s2_wait"
                 /\ UNCHANGED <<runErr, extFail, bcastVars>>
            ELSE /\ Raise("sql_http")
                 /\ UNCHANGED <<cloud, elapsed>>
    /\ UNCHANGED <<req, registered, steps, progress, success, endpoints, inst,
                   deleteCalls, logged, conns, chan, wire, delVars>>
    /\ createCalls' = Bump(createCalls, CloudSql)
    /\ UNCHANGED <<now, reply, stackVars, sqlStatus, multiVars, scaleVars>>

SqlTimedOutFlipped(t) == t < SqlTimeout

\* _wait_for_sql_operation: the loop guard
SqlTimedOut(t) == t > SqlTimeout

\* _wait_for_sql_operation: one pass of the loop, and on DONE the rest of
\* _deploy_cloud_sql (instances().get) and complete_step
Stage2Poll ==
    /\ pc = "s2_wait"
    /\ IF SqlTimedOut(elapsed)
         THEN /\ Raise("sql_timeout")
              /\ UNCHANGED <<steps, elapsed, sqlStatus>>
         ELSE \E outcome \in {"pending", "done", "done_error", "http_error"} :
                CASE outcome = "pending" ->
                       /\ sqlStatus' = "PENDING"
                       /\ elapsed' = elapsed + PassDuration
                       /\ UNCHANGED <<pc, steps, runErr, extFail, bcastVars>>
                  [] outcome = "done" ->
                       /\ sqlStatus' = "DONE"
                       /\ steps' = CompleteStep(steps, "postgres-create", {CloudSql})
                       /\ EnterBroadcast("s3_add")
                       /\ UNCHANGED <<elapsed, runErr, extFail>>
                  [] outcome = "done_error" ->
                       /\ sqlStatus' = "DONE_ERROR"
                       /\ Raise("sql_operation")
                       /\ UNCHANGED <<steps, elapsed>>
                  [] outcome = "http_error" ->
                       /\ Raise("sql_http")
                       /\ UNCHANGED <<steps, elapsed, sqlStatus>>
    /\ UNCHANGED <<req, registered, progress, success, endpoints, inst, cloud,
                   deleteCalls, logged, conns, chan, wire, delVars>>
    /\ UNCHANGED <<createCalls, now, reply, stackVars, multiVars, scaleVars>>

\* STEP 3: progress of step 2 is set and the step of the branch is added
Stage3Begin ==
    /\ pc = "s3_add"
    /\ progress' = ProgressAfter("postgres-create")
    /\ steps' = AddStep(steps, Stage3StepId(req))
    /\ EnterBroadcast("s3_store")
    /\ UNCHANGED <<req, registered, success, endpoints, inst, cloud,
                   deleteCalls, elapsed, runErr, extFail, logged, conns, chan, wire, delVars>>
    /\ UNCHANGED <<createCalls, now, reply, stackVars, sqlStatus, multiVars, scaleVars>>

\* STEP 3: the graph-DB password is stored; with external coordinates the
\* step is completed here
Stage3Store ==
    /\ pc = "s3_store"
    /\ \E outcome \in StoreSecretOutcomes :
          /\ cloud' = CloudAfterStore(Stage3Secret(req), outcome)
          /\ IF outcome # "stored"
               THEN /\ Raise("secret")
                    /\ steps' = steps
               ELSE IF UsesAura(req)
                      THEN /\ steps' = CompleteStep(steps, "neo4j-setup", {})
                           /\ EnterBroadcast("s4_add")
                           /\ UNCHANGED <<runErr, extFail>>
                      ELSE /\ pc' = "s3_deploy"
                           /\ UNCHANGED <<steps, runErr, extFail, bcastVars>>
    /\ UNCHANGED <<req, registered, progress, success, endpoints, inst,
                   deleteCalls, elapsed, logged, conns, chan, wire, delVars>>
    /\ createCalls' = Bump(createCalls, Stage3Secret(req))
    /\ UNCHANGED <<now, reply, stackVars, sqlStatus, multiVars, scaleVars>>

\* _deploy_neo4j: create_service, then operation.result().  The create call
\* may be refused; the operation may fail after the service was created; and
\* the operation may never reach a final state, in which case the await of
\* operation.result(), which is given no timeout, does not return.
Stage3Deploy ==
    /\ pc = "s3_deploy"
    /\ \E outcome \in {"ready", "create_failed", "operation_failed", "never_ready"} :
          /\ cloud' = IF outcome = "create_failed" THEN cloud ELSE cloud \cup {Neo4jService}
          /\ CASE outcome = "ready" ->
                    /\ steps' = CompleteStep(steps, "neo4j-deploy", {Neo4jService})
                    /\ EnterBroadcast("s4_add")
                    /\ UNCHANGED <<runErr, extFail>>
               [] outcome = "never_ready" ->
                    /\ pc' = "s3_result"
                    /\ UNCHANGED <<steps, runErr, extFail, bcastVars>>
               [] OTHER ->
                    /\ Raise("neo4j")
                    /\ steps' = steps
    /\ UNCHANGED <<req, registered, progress, success, endpoints, inst,
                   deleteCalls, elapsed, logged, conns, chan, wire, delVars>>
    /\ createCalls' = Bump(createCalls, Neo4jService)
    /\ UNCHANGED <<now, reply, stackVars, sqlStatus, multiVars, scaleVars>>

\* STEP 4: progress of step 3 is set and the step is added
Stage4Begin ==
    /\ pc = "s4_add"
    /\ progress' = ProgressAfter(Stage3StepId(req))
    /\ steps' = AddStep(steps, "memmachine-deploy")
    /\ EnterBroadcast("s4_call")
    /\ UNCHANGED <<req, registered, success, endpoints, inst, cloud,
                   deleteCalls, elapsed, runErr, extFail, logged, conns, chan, wire, delVars>>
    /\ UNCHANGED <<createCalls, now, reply, stackVars, sqlStatus, multiVars, scaleVars>>

\* STEP 4: deployer._deploy_memmachine(..., neo4j_connection_url=...) is
\* called.  The keyword names no parameter of the method, so the call raises
\* TypeError before the method body runs.
Stage4Call ==
    /\ pc = "s4_call"
    /\ IF DeployMemmachineCallBinds
         THEN /\ pc' = "s4_create"
              /\ UNCHANGED <<runErr, extFail, bcastVars>>
         ELSE Raise("TypeError")
    /\ UNCHANGED <<req, registered, steps, progress, success, endpoints, inst, cloud,
                   deleteCalls, elapsed, logged, conns, chan, wire, delVars>>
    /\ UNCHANGED <<createCalls, now, reply, stackVars, sqlStatus, multiVars, scaleVars>>

\* _deploy_memmachine: create_service, then operation.result(), and
\* complete_step with the service URL.  Reached only if the call binds.
Stage4Create ==
    /\ pc = "s4_create"
    /\ \E outcome \in {"ready", "create_failed", "operation_failed"} :
          /\ cloud' = IF outcome = "create_failed" THEN cloud ELSE cloud \cup {MemService}
          /\ IF outcome = "ready"
               THEN /\ steps' = CompleteStep(steps, "memmachine-deploy", {MemService})
                    /\ EnterBroadcast("s5_add")
                    /\ UNCHANGED <<runErr, extFail>>
               ELSE /\ Raise("memmachine")
                    /\ steps' = steps
    /\ UNCHANGED <<req, registered, progress, success, endpoints, inst,
                   deleteCalls, elapsed, logged, conns, chan, wire, delVars>>
    /\ createCalls' = Bump(createCalls, MemService)
    /\ UNCHANGED <<now, reply, stackVars, sqlStatus, multiVars, scaleVars>>

\* STEP 5: progress of step 4 is set and the step is added
Stage5Begin ==
    /\ pc = "s5_add"
    /\ progress' = ProgressAfter("memmachine-deploy")
    /\ steps' = AddStep(steps, "health-check")
    /\ EnterBroadcast("s5_check")
    /\ UNCHANGED <<req, registered, success, endpoints, inst, cloud,
                   deleteCalls, elapsed, runErr, extFail, logged, conns, chan, wire, delVars>>
    /\ UNCHANGED <<createCalls, now, reply, stackVars, sqlStatus, multiVars, scaleVars>>

\* STEP 5: _validate_deployment returns, after a 200 response or after its
\* attempts are used up (a warning is logged, nothing is raised), and the
\* step is completed
Stage5Validate ==
    /\ pc = "s5_check"
    /\ \E healthy \in BOOLEAN :
          logged' = IF healthy THEN logged ELSE logged \cup {"deployment.health_check.skipped"}
    /\ steps' = CompleteStep(steps, "health-check", {})
    /\ EnterBroadcast("s6_add")
    /\ UNCHANGED <<req, registered, progress, success, endpoints, inst, cloud,
                   deleteCalls, elapsed, runErr, extFail, conns, chan, wire, delVars>>
    /\ UNCHANGED <<createCalls, now, reply, stackVars, sqlStatus, multiVars, scaleVars>>

\* STEP 6: progress of step 5 is set and the step is added
Stage6Begin ==
    /\ pc = "s6_add"
    /\ progress' = ProgressAfter("health-check")
    /\ steps' = AddStep(steps, "finalize")
    /\ EnterBroadcast("s6_complete")
    /\ UNCHANGED <<req, registered, success, endpoints, inst, cloud,
                   deleteCalls, elapsed, runErr, extFail, logged, conns, chan, wire, delVars>>
    /\ UNCHANGED <<createCalls, now, reply, stackVars, sqlStatus, multiVars, scaleVars>>

\* STEP 6: the step is completed
Stage6Complete ==
    /\ pc = "s6_complete"
    /\ steps' = CompleteStep(steps, "finalize", {})
    /\ EnterBroadcast("s6_results")
    /\ UNCHANGED <<req, registered, progress, success, endpoints, inst, cloud,
                   deleteCalls, elapsed, runErr, extFail, logged, conns, chan, wire, delVars>>
    /\ UNCHANGED <<createCalls, now, reply, stackVars, sqlStatus, multiVars, scaleVars>>

\* the keys of status.endpoints
EndpointKeys == {"memmachine_api", "postgres", "neo4j", "playground"}

\* the resources the row names after the finalize write: both service names
\* and the Cloud SQL name are written from the deployment id, the secret
\* names from the variables of the run
FinalNames(r) ==
    {MemService, Neo4jService, CloudSql, OpenaiSecret, PostgresSecret, Stage3Secret(r)}

\* STEP 6: the results are set (endpoints, success, progress 100), then the
\* Instance row is written and the status broadcast.  A failure of the write
\* is raised into the except clause.
Finalize ==
    /\ pc = "s6_results"
    /\ endpoints' = EndpointKeys
    /\ success' = TRUE
    /\ progress' = ProgressAfter("finalize")
    /\ \E dbOk \in BOOLEAN :
          IF dbOk
            THEN /\ inst' = IF inst.exists
                              THEN [inst EXCEPT !.status = "running", !.names = FinalNames(req),
                                                !.health = "healthy"]
                              ELSE inst
                 /\ EnterBroadcast("done")
                 /\ UNCHANGED <<runErr, extFail>>
            ELSE /\ inst' = inst
                 /\ Raise("db")
    /\ UNCHANGED <<req, registered, steps, cloud, deleteCalls, elapsed, logged,
                   conns, chan, wire, delVars>>
    /\ UNCHANGED <<createCalls, now, reply, stackVars, sqlStatus, multiVars, scaleVars>>

\* The error text written to Instance.deployment_error: str(e)
ErrorText(err) == err

FailedRowNoText(row, err) ==
    IF row.exists THEN [row EXCEPT !.status = "failed"] ELSE row

\* if instance: instance.status = FAILED; instance.deployment_error = str(e)
FailedRow(row, err) ==
    IF row.exists THEN [row EXCEPT !.status = "failed", !.error = ErrorText(err)] ELSE row

\* except Exception: success is cleared, the Instance row is set to FAILED
\* with the error text (a failure of that write is logged and swallowed), and
\* the status is broadcast.
Fail ==
    /\ pc = "except"
    /\ success' = FALSE
    /\ \E dbOk \in BOOLEAN :
          IF dbOk
            THEN /\ inst' = FailedRow(inst, runErr)
                 /\ logged' = logged \cup {"Deployment failed"}
                 /\ extFail' = extFail
            ELSE /\ inst' = inst
                 /\ logged' = logged \cup {"Deployment failed", "Failed to update instance status"}
                 /\ extFail' = TRUE
    /\ EnterBroadcast("done")
    /\ UNCHANGED <<req, registered, steps, progress, endpoints, cloud, deleteCalls,
                   elapsed, runErr, conns, chan, wire, delVars>>
    /\ UNCHANGED <<createCalls, now, reply, stackVars, sqlStatus, multiVars, scaleVars>>


(***************************************************************************)
(* delete_instance                                                         *)
(***************************************************************************)
\* the order in which delete_instance goes through the names of the row
DeleteOrder ==
    <<MemService, Neo4jService, CloudSql, OpenaiSecret, PostgresSecret, Neo4jSecret, AuraSecret>>

NamedInOrderFirst(names) ==
    SubSeq(SelectSeq(DeleteOrder, LAMBDA r : r \in names), 1, 1)

\* the resources the row names, in the order delete_instance deletes them
NamedInOrder(names) == SelectSeq(DeleteOrder, LAMBDA r : r \in names)

\* DELETE /{instance_id}: the row is read, a row already deleted is refused
\* (400), otherwise the row is marked DELETING and committed.  A failing
\* commit ends the request with the row unchanged.
DeleteBegin ==
    /\ dpc = "idle"
    /\ inst.exists
    /\ IF inst.status = "deleted"
         THEN /\ dresp' = 400
              /\ UNCHANGED <<inst, dpc, dq, deleted_resources, deletion_errors>>
         ELSE \E dbOk \in BOOLEAN :
                 IF dbOk
                   THEN /\ inst' = [inst EXCEPT !.status = "deleting"]
                        /\ dpc' = "marked"
                        /\ dq' = NamedInOrder(inst.names)
                        /\ deleted_resources' = <<>>
                        /\ deletion_errors' = <<>>
                        /\ dresp' = 0
                   ELSE /\ dresp' = 500
                        /\ UNCHANGED <<inst, dpc, dq, deleted_resources, deletion_errors>>
    /\ UNCHANGED <<runVars, bcastVars, deleteCalls, logged, conns, chan, wire>>
    /\ UNCHANGED <<createCalls, now, reply, stackVars, sqlStatus, multiVars, scaleVars>>

\* except Exception in delete_instance: the row is set to FAILED with the
\* error text; a failure of this write is swallowed
DeleteFailed(row, retryOk) ==
    IF retryOk THEN [row EXCEPT !.status = "failed", !.error = "Deletion failed"] ELSE row

\* if DEPLOYER_AVAILABLE: MemMachineDeployer() is constructed; when the
\* constructor raises the request ends in its except clause.  Without the
\* deployer no resource is deleted.
DeleteDeployer ==
    /\ dpc = "marked"
    /\ \E ctorOk \in BOOLEAN, retryOk \in BOOLEAN :
          IF ~available
            THEN /\ dpc' = "resources"
                 /\ dq' = <<>>
                 /\ UNCHANGED <<inst, logged, dresp>>
            ELSE IF ctorOk
                   THEN /\ dpc' = "resources"
                        /\ UNCHANGED <<inst, logged, dq, dresp>>
                   ELSE /\ dpc' = "idle"
                        /\ dresp' = 500
                        /\ inst' = DeleteFailed(inst, retryOk)
                        /\ logged' = logged \cup {"api.instances.delete.failed"}
                        /\ dq' = dq
    /\ UNCHANGED <<runVars, bcastVars, deleteCalls, conns, chan, wire,
                   deleted_resources, deletion_errors>>
    /\ UNCHANGED <<createCalls, now, reply, stackVars, sqlStatus, multiVars, scaleVars>>

\* one of the guarded deletes: the call is issued for the next named
\* resource; a resource that does not exist makes the control plane raise
DeleteResource ==
    /\ dpc = "resources"
    /\ dq # <<>>
    /\ LET r == Head(dq)
       IN  /\ deleteCalls' = deleteCalls \cup {r}
           /\ dq' = Tail(dq)
           /\ \E ok \in BOOLEAN :
                 /\ ok => r \in cloud
                 /\ IF ok
                      THEN /\ cloud' = cloud \ {r}
                           /\ deleted_resources' = Append(deleted_resources, r)
                           /\ deletion_errors' = deletion_errors
                      ELSE /\ cloud' = cloud
                           /\ deleted_resources' = deleted_resources
                           /\ deletion_errors' = Append(deletion_errors, r)
    /\ UNCHANGED <<pc, req, registered, steps, progress, success, endpoints, inst,
                   elapsed, runErr, extFail, logged, conns, chan, wire, bcastVars, dpc,
                   dresp>>
    /\ UNCHANGED <<createCalls, now, reply, stackVars, sqlStatus, multiVars, scaleVars>>

\* the row is marked DELETED and committed; when the commit raises the
\* request ends in its except clause
DeleteCommit ==
    /\ dpc = "resources"
    /\ dq = <<>>
    /\ \E dbOk \in BOOLEAN, retryOk \in BOOLEAN :
          IF dbOk
            THEN /\ inst' = [inst EXCEPT !.status = "deleted", !.deleted_at = TRUE]
                 /\ logged' = logged
                 /\ dresp' = 200
            ELSE /\ inst' = DeleteFailed(inst, retryOk)
                 /\ logged' = logged \cup {"api.instances.delete.failed"}
                 /\ dresp' = 500
    /\ dpc' = "idle"
    /\ UNCHANGED <<runVars, bcastVars, deleteCalls, conns, chan, wire, dq,
                   deleted_resources, deletion_errors>>
    /\ UNCHANGED <<createCalls, now, reply, stackVars, sqlStatus, multiVars, scaleVars>>

(***************************************************************************)
(* POST /instances/deploy and MemMachineDeployer.deploy_complete_stack     *)
(***************************************************************************)
\* what the requests of this section leave alone
appVars == <<runVars, bcastVars, delVars, inst, deleteCalls, conns, chan, wire,
             createCalls, now, reply, available, sqlStatus, multiVars, scaleVars>>

\* keyword arguments deploy_complete_stack passes to _deploy_memmachine
StackCallKeywords ==
    {"instance_id", "postgres_ip", "postgres_secret", "neo4j_bolt_url",
     "neo4j_secret", "openai_secret", "user_id"}

StackCallBinds == StackCallKeywords \subseteq DeployMemmachineParams

\* neo4j_password = secrets.token_urlsafe(32) replaces the argument before it
\* is tested: the password is never empty
StackPassword(r) == TRUE

\* if neo4j_uri and neo4j_user and neo4j_password, in deploy_complete_stack
StackUsesAura(r) == r.uri /\ r.user /\ StackPassword(r)

\* neo4j_secret: the name step 1 stored the generated password under; the
\* Aura branch does not assign it
StackNeo4jSecretRef(r) == Neo4jSecret

\* whose password the Aura branch stores under neo4j-aura-pass: the argument
\* was replaced by the generated token
StackAuraPassword == "generated"

\* whose password execute_deployment stores under neo4j-aura-pass
AuraPassword == "caller"

\* the secrets of step 1, in the order they are stored
StackSecrets == <<OpenaiSecret, PostgresSecret, Neo4jSecret>>

\* the HTTP status of the response when the body of the handler raises exc:
\* the first clause that matches is except DeploymentError, and where the
\* import failed DeploymentError is Exception itself; both clauses answer 500
DeployResponseTo(exc) ==
    LET DeploymentErrorClass == IF available THEN "DeploymentError" ELSE "Exception"
        Caught(class) == class = exc \/ class = "Exception"
    IN  IF Caught(DeploymentErrorClass) THEN 500
        ELSE IF Caught("Exception") THEN 500
        ELSE 0

\* the except clause of deploy_complete_stack is entered
StackRaise ==
    /\ kpc' = "k_except"

\* POST /instances/deploy: without the deployer HTTPException(503) is raised
\* inside the try block of the handler, which catches it; otherwise the
\* deployer is constructed and deploy_complete_stack called without neo4j_*
\* arguments.  deploy_complete_stack is also called directly.
DeployInstance ==
    /\ kpc = "idle"
    /\ \E call \in StackCalls, ctorOk \in BOOLEAN :
          /\ kreq' = call
          /\ IF call.http /\ ~available
               THEN /\ kresp' = DeployResponseTo("HTTPException")
                    /\ kpc' = "k_responded"
                    /\ logged' = logged \cup {"api.instances.deploy.failed"}
               ELSE /\ available
                    /\ IF call.http /\ ~ctorOk
                         THEN /\ kresp' = DeployResponseTo("Exception")
                              /\ kpc' = "k_responded"
                              /\ logged' = logged \cup {"api.instances.deploy.failed"}
                         ELSE /\ kpc' = "k_secrets"
                              /\ UNCHANGED <<kresp, logged>>
    /\ UNCHANGED <<appVars, kcloud, kcreates, kattempt, ksleeps, kpassed, kinst>>

\* Step 1: the three secrets are stored one after the other; the first store
\* that fails raises
StackStoreSecrets ==
    /\ kpc = "k_secrets"
    /\ \E n \in 0..Len(StackSecrets), partial \in BOOLEAN :
          /\ partial => n < Len(StackSecrets)
          /\ kcloud' = kcloud \cup {StackSecrets[i] : i \in 1..n}
                               \cup (IF partial THEN {StackSecrets[n + 1]} ELSE {})
          /\ kcreates' = [r \in Resources |->
                            IF \E i \in 1..Len(StackSecrets) :
                                   StackSecrets[i] = r /\ i <= n + 1
                              THEN kcreates[r] + 1 ELSE kcreates[r]]
          /\ IF n = Len(StackSecrets)
               THEN kpc' = "k_sql"
               ELSE StackRaise
    /\ UNCHANGED <<appVars, logged, kreq, kattempt, ksleeps, kpassed, kinst, kresp>>

\* Step 2: _deploy_cloud_sql
StackDeploySql ==
    /\ kpc = "k_sql"
    /\ \E outcome \in {"ready", "insert_failed", "operation_failed"} :
          /\ kcloud' = IF outcome = "insert_failed" THEN kcloud ELSE kcloud \cup {CloudSql}
          /\ IF outcome = "ready" THEN kpc' = "k_neo4j" ELSE StackRaise
    /\ kcreates' = Bump(kcreates, CloudSql)
    /\ UNCHANGED <<appVars, logged, kreq, kattempt, ksleeps, kpassed, kinst, kresp>>

\* Step 3: with Aura coordinates only the password is stored; otherwise
\* _deploy_neo4j is called, whose operation may never end
StackNeo4j ==
    /\ kpc = "k_neo4j"
    /\ IF StackUsesAura(kreq)
         THEN \E outcome \in StoreSecretOutcomes :
                 /\ kcloud' = IF outcome = "create_failed" THEN kcloud
                                                           ELSE kcloud \cup {AuraSecret}
                 /\ kcreates' = Bump(kcreates, AuraSecret)
                 /\ IF outcome = "stored" THEN kpc' = "k_memmachine" ELSE StackRaise
         ELSE \E outcome \in {"ready", "create_failed", "operation_failed", "never_ready"} :
                 /\ kcloud' = IF outcome = "create_failed" THEN kcloud
                                                           ELSE kcloud \cup {Neo4jService}
                 /\ kcreates' = Bump(kcreates, Neo4jService)
                 /\ CASE outcome = "ready" -> kpc' = "k_memmachine"
                      [] outcome = "never_ready" -> kpc' = "k_result"
                      [] OTHER -> StackRaise
    /\ UNCHANGED <<appVars, logged, kreq, kattempt, ksleeps, kpassed, kinst, kresp>>

\* what deploy_complete_stack holds in its variables openai_api_key,
\* postgres_password and neo4j_password: the values of the secrets
SecretValues == {"openai_api_key", "postgres_password", "neo4j_password"}

\* the arguments deploy_complete_stack passes to _deploy_memmachine: the
\* address of the database, the address of the graph database of the branch
\* taken, and the names under which step 1 stored the secrets
StackMemmachineArgs(r) ==
    [postgres_ip     |-> "postgres_ip",
     postgres_secret |-> PostgresSecret,
     neo4j_bolt_url  |-> IF StackUsesAura(r) THEN "neo4j_uri" ELSE "neo4j_bolt_url",
     neo4j_secret    |-> StackNeo4jSecretRef(r),
     openai_secret   |-> OpenaiSecret,
     user_id         |-> "user_id"]

\* run_v2.EnvVar(name=..., value=...): the value is the literal text, here
\* the set of the parts it is formatted from
Plain(name, parts) == [name |-> name, value |-> parts, secret |-> "none"]

\* run_v2.EnvVar(name=..., value_source=EnvVarSource(secret_key_ref=...)):
\* no literal value, the name of a secret
Ref(name, secret) == [name |-> name, value |-> {}, secret |-> secret]

MemmachineEnvInline(a, auraHost) ==
    {Plain("POSTGRES_HOST", {a.postgres_ip}),
     Plain("POSTGRES_PASSWORD", {"postgres_password"}),
     Plain("NEO4J_URI", {a.neo4j_bolt_url}),
     Plain("NEO4J_PASSWORD", {"neo4j_password"}),
     Plain("OPENAI_API_KEY", {"openai_api_key"}),
     Plain("DATABASE_URL", {"postgresql://postgres:", "postgres_password", a.postgres_ip})}

\* env=[...] of the container in _deploy_memmachine; auraHost: the address
\* contains "databases.neo4j.io"
MemmachineEnv(a, auraHost) ==
    {Plain("POSTGRES_HOST", {a.postgres_ip}),
     Plain("POSTGRES_PORT", {"5432"}),
     Plain("POSTGRES_USER", {"postgres"}),
     Plain("POSTGRES_DB", {"postgres"}),
     Ref("POSTGRES_PASSWORD", a.postgres_secret),
     Ref("POSTGRES_PASS", a.postgres_secret),
     Plain("NEO4J_URI", {a.neo4j_bolt_url}),
     Plain("NEO4J_HOST", {a.neo4j_bolt_url}),
     Plain("NEO4J_PORT", {"7687"}),
     Plain("NEO4J_USER", {"neo4j"}),
     Ref("NEO4J_PASSWORD", a.neo4j_secret),
     Ref("OPENAI_API_KEY", a.openai_secret),
     Plain("MEMORY_CONFIG", {"/app/configuration.yml"}),
     Plain("SERVER_PORT", {"8080"}),
     Plain("HOST", {"0.0.0.0"}),
     Plain("DEFAULT_GROUP_ID", {a.user_id}),
     Plain("LOG_LEVEL", {"INFO"}),
     Plain("FAST_MCP_LOG_LEVEL", {"INFO"}),
     Plain("ENVIRONMENT", {"production"}),
     Plain("USE_CFG_FILE", {"false"}),
     Plain("DATABASE_URL",
           {"postgresql://postgres:", "$(POSTGRES_PASSWORD)", a.postgres_ip, ":5432/postgres"}),
     Plain("NEO4J_URL",
           IF auraHost THEN {"neo4j+s://", a.neo4j_bolt_url}
                       ELSE {"bolt://neo4j:", "$(NEO4J_PASSWORD)", a.neo4j_bolt_url, ":7687"})}

\* Step 4: _deploy_memmachine, called with the keywords it declares
StackMemmachine ==
    /\ kpc = "k_memmachine"
    /\ IF StackCallBinds
         THEN \E outcome \in {"ready", "create_failed", "operation_failed"} :
                 /\ kcloud' = IF outcome = "create_failed" THEN kcloud
                                                           ELSE kcloud \cup {MemService}
                 /\ kcreates' = Bump(kcreates, MemService)
                 /\ IF outcome = "ready" THEN kpc' = "k_validate" ELSE StackRaise
         ELSE /\ StackRaise
              /\ UNCHANGED <<kcloud, kcreates>>
    /\ UNCHANGED <<appVars, logged, kreq, kattempt, ksleeps, kpassed, kinst, kresp>>

\* Step 5, _validate_deployment: one attempt of the loop.  A 200 response
\* returns; any other response goes to the next attempt at once; an
\* exception of the request is logged and followed by the sleep.
StackValidateAttempt ==
    /\ kpc = "k_validate"
    /\ kattempt < HealthAttempts
    /\ kattempt' = kattempt + 1
    /\ \E outcome \in {"200", "other_status", "exception"} :
          /\ kpassed' = (outcome = "200")
          /\ kpc' = IF outcome = "200" THEN "k_record" ELSE "k_validate"
          /\ ksleeps' = IF outcome = "exception" THEN ksleeps + 1 ELSE ksleeps
          /\ logged' = IF outcome = "exception"
                         THEN logged \cup {"deployment.health_check.retry"} ELSE logged
    /\ UNCHANGED <<appVars, kreq, kcloud, kcreates, kinst, kresp>>

\* _validate_deployment after the last attempt: a warning is logged and the
\* function returns
StackValidateSkipped ==
    /\ kpc = "k_validate"
    /\ kattempt = HealthAttempts
    /\ logged' = logged \cup {"deployment.health_check.skipped"}
    /\ kpc' = "k_record"
    /\ UNCHANGED <<appVars, kreq, kcloud, kcreates, kattempt, ksleeps, kpassed, kinst, kresp>>

\* the Instance object deploy_complete_stack builds after validation
StackInstance ==
    [NoInstance EXCEPT !.exists = TRUE, !.status = "running", !.health = "healthy",
                       !.names = {MemService}]

\* the Instance is built and returned
StackReturn ==
    /\ kpc = "k_record"
    /\ kinst' = StackInstance
    /\ kpc' = "k_returned"
    /\ UNCHANGED <<appVars, logged, kreq, kcloud, kcreates, kattempt, ksleeps, kpassed, kresp>>

\* except Exception in deploy_complete_stack: the failure is logged,
\* _rollback_deployment (which deletes nothing) is awaited and DeploymentError
\* is raised
StackExcept ==
    /\ kpc = "k_except"
    /\ logged' = logged \cup {"deployment.failed", "deployment.rollback.started"}
    /\ kpc' = "k_raised"
    /\ UNCHANGED <<appVars, kreq, kcloud, kcreates, kattempt, ksleeps, kpassed, kinst, kresp>>

\* the handler of POST /instances/deploy answers: 201 with the URL of the
\* Instance returned, or the status its except clauses give DeploymentError
DeployRespond ==
    /\ kpc \in {"k_returned", "k_raised"}
    /\ kreq.http
    /\ kresp' = IF kpc = "k_returned" THEN 201 ELSE DeployResponseTo("DeploymentError")
    /\ logged' = IF kpc = "k_returned" THEN logged
                                       ELSE logged \cup {"api.instances.deploy.failed"}
    /\ kpc' = "k_responded"
    /\ UNCHANGED <<appVars, kreq, kcloud, kcreates, kattempt, ksleeps, kpassed, kinst>>

(***************************************************************************)
(* start_instance and stop_instance                                        *)
(***************************************************************************)
\* what the two requests leave alone
scaleFrame == <<runVars, bcastVars, delVars, deleteCalls, conns, chan, wire,
                createCalls, now, reply, stackVars, sqlStatus, multiVars>>

\* the status the request requires of the row it has read
ScalePrecondition(op) == IF op = "start" THEN "stopped" ELSE "running"

\* min_instances the request asks of the control plane and writes to the row
ScaleTarget(op) == IF op = "start" THEN 1 ELSE 0

\* the status the request writes to the row
ScaleStatus(op) == IF op = "start" THEN "running" ELSE "stopped"

\* instance.status = ...; instance.min_instances = ...: the UPDATE the commit
\* sends sets these two columns of the row, whatever the row holds by then
ScaledRow(row, op) ==
    [row EXCEPT !.status = ScaleStatus(op), !.min_instances = ScaleTarget(op)]

\* POST /{instance_id}/start or /stop: the row is read; a row that is not in
\* the required status is refused with 400
ScaleBegin(i, op) ==
    /\ spc[i] = "idle"
    /\ inst.exists
    /\ sop' = [sop EXCEPT ![i] = op]
    /\ supdated' = [supdated EXCEPT ![i] = FALSE]
    /\ IF inst.status = ScalePrecondition(op)
         THEN /\ spc' = [spc EXCEPT ![i] = "update"]
              /\ sresp' = [sresp EXCEPT ![i] = 0]
         ELSE /\ spc' = spc
              /\ sresp' = [sresp EXCEPT ![i] = 400]
    /\ UNCHANGED <<scaleFrame, inst, logged, minReplicas>>

\* if DEPLOYER_AVAILABLE: _update_cloud_run_min_instances on the service the
\* row names.  get_service or update_service may raise, and do when the
\* service does not exist; the request then ends with 500.  Without the
\* deployer the call is skipped.
ScaleUpdate(i) ==
    /\ spc[i] = "update"
    /\ IF ~available
         THEN /\ spc' = [spc EXCEPT ![i] = "write"]
              /\ UNCHANGED <<sresp, supdated, minReplicas, logged>>
         ELSE \E ok \in BOOLEAN :
                 /\ ok => (MemService \in inst.names /\ MemService \in cloud)
                 /\ IF ok
                      THEN /\ minReplicas' = ScaleTarget(sop[i])
                           /\ supdated' = [supdated EXCEPT ![i] = TRUE]
                           /\ spc' = [spc EXCEPT ![i] = "write"]
                           /\ UNCHANGED <<sresp, logged>>
                      ELSE /\ sresp' = [sresp EXCEPT ![i] = 500]
                           /\ spc' = [spc EXCEPT ![i] = "idle"]
                           /\ logged' = logged \cup {"api.instances.scale.failed"}
                           /\ UNCHANGED <<supdated, minReplicas>>
    /\ UNCHANGED <<scaleFrame, inst, sop>>

\* the row is written and committed; a failing commit ends the request with
\* 500 and the row as it was
ScaleWrite(i) ==
    /\ spc[i] = "write"
    /\ \E dbOk \in BOOLEAN :
          IF dbOk
            THEN /\ inst' = ScaledRow(inst, sop[i])
                 /\ sresp' = [sresp EXCEPT ![i] = 200]
                 /\ logged' = logged
            ELSE /\ inst' = inst
                 /\ sresp' = [sresp EXCEPT ![i] = 500]
                 /\ logged' = logged \cup {"api.instances.scale.failed"}
    /\ spc' = [spc EXCEPT ![i] = "idle"]
    /\ UNCHANGED <<scaleFrame, sop, supdated, minReplicas>>

(***************************************************************************)
(* get_deployment_status                                                   *)
(***************************************************************************)
StatusReplyKeyError == IF registered THEN [code |-> 200, body |-> Snapshot] ELSE [code |-> 500]

\* the answer of GET /{deployment_id}/status: 404 for an id that is not in
\* active_deployments, otherwise the DeploymentStatus
StatusReply == IF registered THEN [code |-> 200, body |-> Snapshot] ELSE [code |-> 404]

\* GET /{deployment_id}/status
StatusQuery ==
    /\ reply' = StatusReply
    /\ UNCHANGED <<runVars, bcastVars, delVars, inst, deleteCalls, logged, conns, chan,
                   wire, createCalls, now, stackVars, sqlStatus, multiVars, scaleVars>>

(***************************************************************************)
(* Several deployments.  active_deployments and deployment_connections are *)
(* dictionaries keyed by deployment id; start_deployment, add_step,        *)
(* complete_step, broadcast_update and deployment_websocket index them     *)
(* with the id they are given.  The external calls of a stage are one step *)
(* here, and broadcast_update runs its loop within the step that calls it. *)
(***************************************************************************)
\* what the steps of this section leave alone
singleVars == <<runVars, bcastVars, delVars, inst, deleteCalls, logged, conns, wire,
                createCalls, now, reply, stackVars, sqlStatus, scaleVars>>

\* the step ids of execute_deployment in the order of its stages
StageIds(r) ==
    <<"secret-openai", "postgres-create", Stage3StepId(r), "memmachine-deploy",
      "health-check", "finalize">>

\* one request for each graph-DB branch of the run
BranchRequests == {r \in Requests : r.uri = r.password}

TargetsOfFirst(connections, d) == connections["A"]

\* deployment_connections[deployment_id], the list broadcast_update iterates
TargetsOf(connections, d) == connections[d]

\* broadcast_update's loop over list from position i on: the send to a closed
\* socket raises and removes the socket from the list, and the iterator moves
\* on by one all the same
RECURSIVE Publish(_, _, _)
Publish(list, i, closed) ==
    IF i > Len(list) THEN [list |-> list, got |-> {}]
    ELSE IF list[i] \in closed
           THEN Publish(RemoveFirst(list, list[i]), NextIndex(i, TRUE), closed)
           ELSE LET rest == Publish(list, NextIndex(i, FALSE), closed)
                IN  [list |-> rest.list, got |-> rest.got \cup {list[i]}]

\* broadcast_update(d): the status of d is sent to the sockets of d
BroadcastUpdate(d) ==
    LET out == Publish(TargetsOf(deployment_connections, d), 1,
                       {c \in Channels : chan[c] = "closed"})
    IN  /\ deployment_connections' = [deployment_connections EXCEPT ![d] = out.list]
        /\ inbox' = [c \in Channels |-> IF c \in out.got THEN inbox[c] \cup {d} ELSE inbox[c]]

\* start_deployment for id d
StartOf(d) ==
    /\ mpc[d] = "idle"
    /\ \E r \in BranchRequests : mreq' = [mreq EXCEPT ![d] = r]
    /\ active_deployments' = [active_deployments EXCEPT ![d] = InitialStatus]
    /\ mpc' = [mpc EXCEPT ![d] = "add"]
    /\ UNCHANGED <<singleVars, available, chan, deployment_connections, sockId, inbox>>

\* the run of d sets the progress of the stage before and adds the step of
\* its next stage
AddStepOf(d) ==
    /\ mpc[d] = "add"
    /\ LET st == active_deployments[d]
           k == Len(st.steps) + 1
           ids == StageIds(mreq[d])
       IN  active_deployments' =
              [active_deployments EXCEPT
                  ![d].progress = IF k > 1 THEN ProgressAfter(ids[k - 1]) ELSE @,
                  ![d].steps = AddStep(@, ids[k])]
    /\ BroadcastUpdate(d)
    /\ mpc' = [mpc EXCEPT ![d] = "call"]
    /\ UNCHANGED <<singleVars, available, chan, mreq, sockId>>

\* the external calls of the current stage of d return, and the step is
\* completed, or one of them raises; the call of stage 4 raises TypeError
CallOf(d) ==
    /\ mpc[d] = "call"
    /\ LET st == active_deployments[d]
           k == Len(st.steps)
           ids == StageIds(mreq[d])
       IN  \E ok \in BOOLEAN :
              /\ ok => (k # 4 \/ DeployMemmachineCallBinds)
              /\ IF ok
                   THEN /\ active_deployments' =
                             [active_deployments EXCEPT
                                 ![d].steps = CompleteStep(@, ids[k], {}),
                                 ![d].success = IF k = Len(ids) THEN TRUE ELSE @,
                                 ![d].progress = IF k = Len(ids) THEN ProgressAfter(ids[k]) ELSE @]
                        /\ BroadcastUpdate(d)
                        /\ mpc' = [mpc EXCEPT ![d] = IF k = Len(ids) THEN "done" ELSE "add"]
                   ELSE /\ mpc' = [mpc EXCEPT ![d] = "except"]
                        /\ UNCHANGED <<active_deployments, deployment_connections, inbox>>
    /\ UNCHANGED <<singleVars, available, chan, mreq, sockId>>

\* the except clause of the run of d
ExceptOf(d) ==
    /\ mpc[d] = "except"
    /\ active_deployments' = [active_deployments EXCEPT ![d].success = FALSE]
    /\ BroadcastUpdate(d)
    /\ mpc' = [mpc EXCEPT ![d] = "done"]
    /\ UNCHANGED <<singleVars, available, chan, mreq, sockId>>

\* deployment_websocket for socket c and id d: the socket is appended to the
\* list of d and, if d is registered, sent the status of d
SubscribeTo(c, d) ==
    /\ chan[c] = "none"
    /\ \E mode \in {"open", "closed"} :
          /\ chan' = [chan EXCEPT ![c] = mode]
          /\ inbox' = IF active_deployments[d] # NoStatus /\ mode = "open"
                        THEN [inbox EXCEPT ![c] = @ \cup {d}] ELSE inbox
    /\ sockId' = [sockId EXCEPT ![c] = d]
    /\ deployment_connections' = [deployment_connections EXCEPT ![d] = Append(@, c)]
    /\ UNCHANGED <<singleVars, available, active_deployments, mpc, mreq>>

\* the client of socket c goes away
DisconnectOf(c) ==
    /\ chan[c] = "open"
    /\ chan' = [chan EXCEPT ![c] = "closed"]
    /\ UNCHANGED <<singleVars, available, multiVars>>

(***************************************************************************)
(* The clock                                                               *)
(***************************************************************************)
\* time passes: datetime.utcnow() never returns less than it did before
Tick ==
    /\ now < MaxTick
    /\ now' = now + 1
    /\ UNCHANGED <<runVars, bcastVars, delVars, inst, deleteCalls, logged, conns, chan,
                   wire, createCalls, reply, stackVars, sqlStatus, multiVars, scaleVars>>

(***************************************************************************)
(* Specifications                                                          *)
(***************************************************************************)
\* The steps of the background task outside broadcast_update.  The steps
\* after the stage-4 call (Stage4Create, Stage5Begin, Stage5Validate,
\* Stage6Begin, Stage6Complete, Finalize) are not listed: Stage4Call raises in
\* every run, so no behaviour takes them.
RunNext ==
    \/ Stage1Begin
    \/ Stage1Store
    \/ Stage2Begin
    \/ Stage2Store
    \/ Stage2Insert
    \/ Stage2Poll
    \/ Stage3Begin
    \/ Stage3Store
    \/ Stage3Deploy
    \/ Stage4Begin
    \/ Stage4Call
    \/ Fail

\* The deployment and the delete_instance requests for its Instance row.  No
\* socket is connected, so broadcast_update returns at once.  The row names
\* no resource before finalize, which no run reaches (Stage4Call), so the
\* guarded deletes of delete_instance are never taken here.
Next ==
    \/ StartDeployment
    \/ RunNext
    \/ DeleteBegin
    \/ DeleteDeployer
    \/ DeleteCommit
    \/ StatusQuery

Spec == Init /\ [][Next]_vars

\* The event loop runs a task that can take a step: the background task is
\* not starved by the requests.
FairSpec == Spec /\ WF_vars(RunNext)

\* The rows delete_instance may find: the instances table outlives the
\* process, and the row of a deployed instance names its two services, its
\* Cloud SQL instance and its three secrets.
StoredRows ==
    {[NoInstance EXCEPT !.exists = TRUE, !.status = st, !.names = FinalNames(r)] :
        st \in {"running", "stopped", "failed"}, r \in Requests}

\* delete_instance on a stored row.  Each named resource exists in the cloud
\* project or is already gone (deleted by hand, or by an earlier delete whose
\* final commit failed).
InitInst ==
    /\ InitBase
    /\ available \in BOOLEAN
    /\ inst \in StoredRows
    /\ cloud \in SUBSET inst.names

NextInst ==
    \/ DeleteBegin
    \/ DeleteDeployer
    \/ DeleteResource
    \/ DeleteCommit

SpecInst == InitInst /\ [][NextInst]_vars

\* start_instance and stop_instance requests on a stored row of the served
\* application: the deployer was imported, the resources the row names exist
InitScale ==
    /\ InitBase
    /\ available = TRUE
    /\ inst \in {row \in StoredRows : row.status \in {"running", "stopped"}}
    /\ cloud = inst.names

NextScale ==
    \/ \E i \in Scalers, op \in {"start", "stop"} : ScaleBegin(i, op)
    \/ \E i \in Scalers : ScaleUpdate(i)
    \/ \E i \in Scalers : ScaleWrite(i)

SpecScale == InitScale /\ [][NextScale]_vars

\* delete_instance together with a start_instance or stop_instance request on
\* a stored row of the served application
InitLife ==
    /\ InitBase
    /\ available = TRUE
    /\ inst \in StoredRows
    /\ cloud = inst.names

NextLife ==
    \/ DeleteBegin
    \/ DeleteDeployer
    \/ DeleteResource
    \/ DeleteCommit
    \/ \E op \in {"start", "stop"} : ScaleBegin(1, op)
    \/ ScaleUpdate(1)
    \/ ScaleWrite(1)

SpecLife == InitLife /\ [][NextLife]_vars

\* The two ways of deploying.  The deployments of the two have different ids
\* and share no state, so the model lets one begin only while the other has
\* not begun or has ended.
InitStack ==
    /\ InitCommon
    /\ available \in BOOLEAN

StackNext ==
    \/ StackStoreSecrets
    \/ StackDeploySql
    \/ StackNeo4j
    \/ StackMemmachine
    \/ StackValidateAttempt
    \/ StackValidateSkipped
    \/ StackReturn
    \/ StackExcept
    \/ DeployRespond

NextStack ==
    \/ (kpc = "idle" /\ StartDeployment)
    \/ RunNext
    \/ (pc \in {"idle", "done"} /\ DeployInstance)
    \/ StackNext

SpecStack == InitStack /\ [][NextStack]_vars

\* Concurrent deployments and their subscribers.
NextMulti ==
    \/ \E d \in Ids : StartOf(d)
    \/ \E d \in Ids : AddStepOf(d)
    \/ \E d \in Ids : CallOf(d)
    \/ \E d \in Ids : ExceptOf(d)
    \/ \E c \in Channels, d \in Ids : SubscribeTo(c, d)
    \/ \E c \in Channels : DisconnectOf(c)

SpecMulti == Init /\ [][NextMulti]_vars

\* The deployment under a clock that advances between its steps.
NextSteps ==
    \/ StartDeployment
    \/ RunNext
    \/ Tick

SpecSteps == Init /\ [][NextSteps]_vars

\* The deployment and the websocket clients of its progress channel.
NextPub ==
    \/ StartDeployment
    \/ RunNext
    \/ BroadcastSend
    \/ \E c \in Channels : Subscribe(c)
    \/ \E c \in Channels : Disconnect(c)

SpecPub == Init /\ [][NextPub]_vars

(***************************************************************************)
(* Properties                                                              *)
(***************************************************************************)
\* the task has ended: the except clause has run to its end
RunEnded == pc = "done"

\* C1: overall_progress never decreases from one state to the next, and it
\* is 100 exactly when success is true.
C1_ProgressMonotone ==
    [][progress' >= progress /\ ((progress' = 100) <=> success')]_vars

\* C1 witness: a run has raised progress stage by stage and ended after a
\* send and a durable-store call failed.
C1_Witness ==
    RunEnded /\ progress = 55 /\ extFail /\ sendFailed # {}

\* C2: a run without external graph coordinates in which every external call
\* succeeded ends with six completed steps, success, three endpoint keys and
\* a running Instance.
C2_HappyPath ==
    (RunEnded /\ ~req.uri /\ ~extFail) =>
        /\ success
        /\ Len(steps) = 6
        /\ \A i \in 1..Len(steps) : steps[i].status = "completed"
        /\ Cardinality(endpoints) = 3
        /\ inst.status = "running"

\* C3: after the relational-DB ready-wait timed out the run ends without
\* success, the Instance is failed with the error set, and deletes were
\* issued for exactly the two stored secrets and the relational-DB instance.
C3_SqlTimeoutRollback ==
    (RunEnded /\ runErr = "sql_timeout") =>
        /\ ~success
        /\ inst.status = "failed"
        /\ inst.error # "none"
        /\ deleteCalls = {OpenaiSecret, PostgresSecret, CloudSql}

\* C4 as stated: every run that raised ends with success false and the
\* Instance failed with the error text.
C4_Original ==
    RunEnded => (~success /\ inst.status = "failed" /\ inst.error = ErrorText(runErr))

\* C4 as amended: the except clause leaves success false and either writes
\* status failed with the error text to the Instance, or, when that write
\* itself raised, logs the failure and leaves the Instance as it was.
C4_FailureHandler ==
    [][(pc = "except" /\ pc' # "except") =>
          /\ ~success'
          /\ IF "Failed to update instance status" \in logged'
               THEN inst' = inst
               ELSE inst'.status = "failed" /\ inst'.error = ErrorText(runErr)]_vars

\* C4 witness: a run that raised at the stage-4 call has ended with the
\* failure and its text recorded in the Instance.
C4_Witness ==
    RunEnded /\ ~success /\ inst.status = "failed" /\ inst.error = "TypeError"

\* C5: when a stage has raised, a delete was attempted for every resource
\* the run created.
C5_RollbackAttempted ==
    (RunEnded /\ runErr # "none") => \A r \in cloud : r \in deleteCalls

\* the resources named in the reported state: the names of the Instance row
\* and the result details of the steps
Reported == inst.names \cup UNION {steps[i].details : i \in 1..Len(steps)}

\* C6: after a failed run every resource that still exists is named in the
\* reported state.
C6_LeftoversReported ==
    (RunEnded /\ ~success) => \A r \in cloud : r \in Reported

\* C7: when a publish has completed, every socket registered when it began
\* whose own send did not fail has received the snapshot, and a socket is
\* gone from the list only if its own send failed.
C7_PublishReachesAll ==
    (pc # "bcast") =>
        /\ \A c \in pubLive \ sendFailed : c \in got
        /\ \A c \in pubLive : c \notin Range(conns) => c \in sendFailed

\* C8: a subscriber never keeps the publisher from advancing.
C8_PublisherNotBlocked ==
    (pc = "bcast") => ENABLED BroadcastSend

AllowedTransitions ==
    {<<"creating", "running">>, <<"creating", "failed">>, <<"running", "stopped">>,
     <<"stopped", "running">>, <<"deleting", "deleted">>}
    \cup {<<x, "deleting">> : x \in InstanceStatus \ {"deleted"}}

\* C10: every change of Instance.status is an allowed transition.
C10_StatusTransitions ==
    [][(inst.exists /\ inst'.status # inst.status) =>
          <<inst.status, inst'.status>> \in AllowedTransitions]_vars

\* C15: start_deployment returns with the Instance row creating and the id
\* registered with progress 0, no steps and success false, before any stage has
\* run; the background task never runs without the registry entry.
C15_StartReturnsRegistered ==
    /\ [](pc \notin {"idle", "rejected"} => registered)
    /\ [][(pc = "idle" /\ pc' \notin {"idle", "rejected"}) =>
             /\ pc' = "s1_add"
             /\ registered'
             /\ inst'.exists /\ inst'.status = "creating"
             /\ steps' = <<>> /\ progress' = 0 /\ ~success'
             /\ cloud' = {} /\ createCalls' = NoCalls]_vars

\* C15 witness: the request has returned and the task has not yet run.
C15_Witness ==
    pc = "s1_add" /\ registered /\ inst.status = "creating" /\ steps = <<>> /\ progress = 0

\* C17: a status query is answered with 404 for an id that is not registered
\* and with the current DeploymentStatus for one that is; it changes neither
\* the registry nor the subscriber list; a registered id stays registered.
C17_StatusQuery ==
    /\ [][registered => registered']_vars
    /\ [][(reply' # reply) =>
             /\ reply' = IF registered THEN [code |-> 200, body |-> Snapshot]
                                       ELSE [code |-> 404]
             /\ registered' = registered
             /\ conns' = conns
             /\ Snapshot' = Snapshot]_vars

\* C17 witness: the id of a refused start request was queried.
C17_Witness ==
    pc = "rejected" /\ ~registered /\ reply.code = 404 /\ conns = <<>>

\* C18: no two steps of the DeploymentStatus have the same id.
C18_StepIdsUnique ==
    \A i, j \in 1..Len(steps) : i # j => steps[i].id # steps[j].id

\* C18 witness: a run on the external graph-DB branch has added its steps.
C18_Witness ==
    Len(steps) = 4 /\ steps[3].id = "neo4j-setup" /\ steps[4].id = "memmachine-deploy"

\* C19: a completed or failed step has a start and a completion timestamp,
\* the start not after the completion.
C19_StepTimestamps ==
    \A i \in 1..Len(steps) :
        steps[i].status \in {"completed", "failed"} =>
            /\ steps[i].started_at # NoTime
            /\ steps[i].completed_at # NoTime
            /\ steps[i].started_at <= steps[i].completed_at

\* C19 witness: a step was completed after the clock had moved on, another
\* within the same tick.
C19_Witness ==
    /\ Len(steps) >= 2
    /\ steps[1].status = "completed" /\ steps[1].started_at < steps[1].completed_at
    /\ steps[2].status = "completed" /\ steps[2].started_at = steps[2].completed_at

\* C20: every run that has started reaches the end of the task.
C20_RunTerminates ==
    (pc = "s1_add") ~> RunEnded

\* C13: a run in which every provisioning call succeeded, whatever the health
\* checks answered, ends with the health-check and finalize steps completed,
\* success = true and overall_progress = 100.
C13_LenientValidation ==
    (RunEnded /\ ~extFail) =>
        /\ \E i \in 1..Len(steps) : steps[i].id = "health-check" /\ steps[i].status = "completed"
        /\ \E i \in 1..Len(steps) : steps[i].id = "finalize" /\ steps[i].status = "completed"
        /\ success
        /\ progress = 100

\* C12: a delete issued for a named resource that is not in the cloud
\* project is recorded under deleted_resources and not under deletion_errors.
C12_AbsentDeleteSucceeds ==
    [][(dpc = "resources" /\ dq # <<>> /\ dq' = Tail(dq) /\ Head(dq) \notin cloud) =>
          /\ deleted_resources' = Append(deleted_resources, Head(dq))
          /\ deletion_errors' = deletion_errors]_vars

\* C11 as stated: a request or call that carries a graph-DB URI issues no
\* create call for the graph-DB service, in execute_deployment and in
\* deploy_complete_stack.
C11_Original ==
    /\ req.uri => createCalls[Neo4jService] = 0
    /\ kreq.uri => kcreates[Neo4jService] = 0

\* C11: a request or call that carries URI, user and password issues no create
\* call for the graph-DB service, in execute_deployment and in
\* deploy_complete_stack.
C11_CoordinatesSkipCreate ==
    /\ (req.uri /\ req.user /\ req.password) => createCalls[Neo4jService] = 0
    /\ (kreq.uri /\ kreq.user /\ kreq.password) => kcreates[Neo4jService] = 0

\* C11 witness: both functions have passed their graph-DB stage with full
\* coordinates, having stored the password.
C11_Witness ==
    /\ req.uri /\ req.user /\ req.password
    /\ pc = "done" /\ Len(steps) = 4 /\ AuraSecret \in cloud
    /\ createCalls[Neo4jService] = 0
    /\ kreq.uri /\ kreq.user /\ kreq.password
    /\ kpc = "k_returned" /\ AuraSecret \in kcloud
    /\ kcreates[Neo4jService] = 0

\* C14: an Instance whose health_status is healthy belongs to a deployment one
\* of whose health checks got a 200 response.
C14_HealthyOnlyAfterPass ==
    (kpc \in {"k_returned", "k_responded"} /\ kinst.exists /\ kinst.health = "healthy")
        => kpassed

\* C16: without the deployer POST /instances/deploy is answered with 503.
C16_Unavailable503 ==
    (~available /\ kpc = "k_responded") => kresp = 503

\* C21: once the run has ended no step is in_progress (the step of a stage
\* that raised is failed).
C21_NoStepLeftInProgress ==
    RunEnded => \A i \in 1..Len(steps) : steps[i].status # "in_progress"

\* C22: a run whose first three stages completed and none of whose external
\* calls failed has its step memmachine-deploy completed with the service URL
\* and overall_progress at 85 or beyond.
C22_Stage4Completes ==
    (/\ RunEnded /\ ~extFail
     /\ Len(steps) >= 4
     /\ \A i \in 1..3 : steps[i].status = "completed")
        => /\ steps[4].id = "memmachine-deploy"
           /\ steps[4].status = "completed"
           /\ MemService \in steps[4].details
           /\ MemService \in cloud
           /\ progress >= 85

\* C23: the steps are a prefix of the stage order, every step but the last is
\* completed, and the creating call of a stage is issued only after the step
\* of the stage before is completed.
C23_StagesSequential ==
    LET order == <<{"secret-openai"}, {"postgres-create"}, {"neo4j-setup", "neo4j-deploy"},
                   {"memmachine-deploy"}, {"health-check"}, {"finalize"}>>
        Done(k) == Len(steps) > k /\ steps[k].status = "completed"
        Called(rs) == \E r \in rs : createCalls[r] > 0
    IN  /\ Len(steps) <= Len(order)
        /\ \A i \in 1..Len(steps) : steps[i].id \in order[i]
        /\ \A i \in 1..(Len(steps) - 1) : steps[i].status = "completed"
        /\ Called({OpenaiSecret}) => Len(steps) >= 1
        /\ Called({PostgresSecret, CloudSql}) => Done(1)
        /\ Called({Neo4jSecret, AuraSecret, Neo4jService}) => Done(2)
        /\ Called({MemService}) => Done(3)

\* C23 witness: the run has reached stage 4 on the branch that deploys the
\* graph DB.
C23_Witness ==
    /\ Len(steps) = 4 /\ steps[3].id = "neo4j-deploy" /\ steps[3].status = "completed"
    /\ createCalls[Neo4jService] = 1

\* C24: no creating call is issued twice, in execute_deployment and in
\* deploy_complete_stack, and none is issued after a stage has raised.
C24_CreateAtMostOnce ==
    /\ [](\A r \in Resources : createCalls[r] <= 1 /\ kcreates[r] <= 1)
    /\ [][(runErr # "none" => createCalls' = createCalls)
          /\ (kpc \in {"k_except", "k_raised"} => kcreates' = kcreates)]_vars

\* C24 witness: a run and a call of deploy_complete_stack have both failed
\* after creating resources.
C24_Witness ==
    /\ pc = "done" /\ runErr = "sql_timeout" /\ createCalls[CloudSql] = 1
    /\ kpc = "k_raised" /\ kcreates[CloudSql] = 1 /\ kcreates[Neo4jService] = 0

\* C25: where external coordinates are adopted the generated graph-DB secret
\* is not stored, the secret stored holds the caller's password, and the
\* application service is given the name of that secret.
C25_AdoptedCredential ==
    /\ (req.uri /\ req.user /\ req.password) =>
          /\ createCalls[Neo4jSecret] = 0
          /\ Neo4jSecret \notin cloud
          /\ (createCalls[AuraSecret] > 0 =>
                 AuraPassword = "caller" /\ Stage3Secret(req) = AuraSecret)
    /\ (kreq.uri /\ kreq.user /\ kreq.password) =>
          /\ kcreates[Neo4jSecret] = 0
          /\ Neo4jSecret \notin kcloud
          /\ (kcreates[AuraSecret] > 0 =>
                 StackAuraPassword = "caller" /\ StackNeo4jSecretRef(kreq) = AuraSecret)

\* C26: the validator makes at most 10 attempts, and before each further
\* attempt it has slept once for every attempt that failed.
C26_DelayBetweenAttempts ==
    /\ kattempt <= HealthAttempts
    /\ kpc = "k_validate" => ksleeps = kattempt

\* C28: when a run none of whose external calls failed has ended, the Instance
\* row names exactly the resources the run created.
C28_RecordNamesCreated ==
    (RunEnded /\ ~extFail /\ inst.exists) => inst.names = cloud

\* C29: the database create request is issued only with the password secret
\* stored, and not at all when storing it failed.
C29_CredentialFirst ==
    /\ createCalls[CloudSql] > 0 =>
          PostgresSecret \in cloud /\ createCalls[PostgresSecret] = 1
    /\ (Len(steps) = 2 /\ runErr = "secret") => createCalls[CloudSql] = 0

\* C29 witness: the create request was issued, the secret being stored.
C29_Witness ==
    pc = "s2_wait" /\ createCalls[CloudSql] = 1 /\ PostgresSecret \in cloud

\* C27: the ready-wait returns normally only after a poll reported DONE
\* without an error; DONE with an error raises the operation error; it raises
\* the timeout error exactly when it finds more than 600 s elapsed; the time
\* between two polls is one fixed interval; and the wait always ends.
C27_ReadyWait ==
    /\ [][pc = "s2_wait" =>
            /\ (pc' \notin {"s2_wait", "except"}) => (sqlStatus' = "DONE" /\ elapsed <= 600)
            /\ (sqlStatus' = "DONE_ERROR") => (pc' = "except" /\ runErr' = "sql_operation")
            /\ (elapsed > 600 /\ pc' # "s2_wait") => (pc' = "except" /\ runErr' = "sql_timeout")
            /\ (runErr' = "sql_timeout") => elapsed > 600
            /\ (elapsed' # elapsed) =>
                  (pc' = "s2_wait" /\ sqlStatus' = "PENDING" /\ elapsed' = elapsed + PassDuration)]_vars
    /\ (pc = "s2_wait") ~> (pc # "s2_wait")

\* C27 witness: the wait has returned after polls that found the operation
\* pending.
C27_Witness ==
    /\ sqlStatus = "DONE" /\ elapsed > 0 /\ pc # "s2_wait"
    /\ Len(steps) >= 2 /\ steps[2].status = "completed"

\* C30: a step of the run of one id leaves the DeploymentStatus and the
\* subscriber list of every other id as they were, and a socket is sent the
\* status of no id but the one it subscribed to.
C30_RunsIsolated ==
    /\ [](\A c \in Channels : inbox[c] \subseteq {sockId[c]})
    /\ [][\A d \in Ids : mpc'[d] # mpc[d] =>
             \A e \in Ids \ {d} :
                /\ active_deployments'[e] = active_deployments[e]
                /\ deployment_connections'[e] = deployment_connections[e]
                /\ mpc'[e] = mpc[e]]_vars

\* C30 witness: both runs have steps of their own, each with a subscriber
\* that was sent its status.
C30_Witness ==
    /\ mpc["A"] = "call" /\ Len(active_deployments["A"].steps) = 3
    /\ mpc["B"] = "done" /\ Len(active_deployments["B"].steps) = 1
    /\ \E c1, c2 \in Channels :
          /\ sockId[c1] = "A" /\ inbox[c1] = {"A"}
          /\ sockId[c2] = "B" /\ inbox[c2] = {"B"}


(***************************************************************************)
(* C35: at every moment at most one step of a deployment is in_progress,   *)
(* that step is the last of the list, and every step before it is          *)
(* completed.                                                              *)
(***************************************************************************)
C35_OneStepInProgress ==
    /\ Cardinality({i \in 1..Len(steps) : steps[i].status = "in_progress"}) <= 1
    /\ \A i \in 1..Len(steps) :
          steps[i].status = "in_progress" =>
              /\ i = Len(steps)
              /\ \A j \in 1..(i - 1) : steps[j].status = "completed"

\* stage 3 is being carried out: its step is in progress behind two
\* completed ones
C35_Witness ==
    /\ Len(steps) = 3
    /\ steps[3].status = "in_progress"
    /\ steps[1].status = "completed"
    /\ steps[2].status = "completed"


(***************************************************************************)
(* C38: when persisting the initial creating record fails in               *)
(* start_deployment, nothing is registered and no run is launched; no      *)
(* cloud resource is ever created, or asked for, on behalf of a deployment *)
(* that has no Instance record.                                            *)
(***************************************************************************)
C38_NoRunWithoutRecord ==
    /\ pc = "rejected" =>
          /\ ~inst.exists
          /\ ~registered
          /\ steps = <<>>
          /\ cloud = {}
          /\ createCalls = NoCalls
    /\ (cloud # {} \/ createCalls # NoCalls \/ registered) => inst.exists

\* the commit of the creating record raised and the request was refused
C38_Witness ==
    /\ pc = "rejected"
    /\ ~inst.exists


(***************************************************************************)
(* C33: once delete_instance has set the status of a record to deleted, no *)
(* later step of a deployment run, start or stop that is still in flight   *)
(* changes the record.                                                     *)
(***************************************************************************)
C33_DeletedIsFinal ==
    [][inst.status = "deleted" => inst' = inst]_vars


(***************************************************************************)
(* C31: no environment binding of the created application service holds a  *)
(* secret value (the API key, the database password, the graph password):  *)
(* the service configuration refers to the stored secrets by name only,    *)
(* while the database addresses appear in plaintext.                       *)
(***************************************************************************)
C31_SecretsByReference ==
    MemService \in kcloud =>
        \A auraHost \in BOOLEAN :
            LET a   == StackMemmachineArgs(kreq)
                env == MemmachineEnv(a, auraHost)
                of(n) == {b \in env : b.name = n}
            IN  /\ \A b \in env : b.value \cap SecretValues = {}
                /\ \A n \in {"POSTGRES_PASSWORD", "POSTGRES_PASS", "NEO4J_PASSWORD",
                              "OPENAI_API_KEY"} :
                       /\ of(n) # {}
                       /\ \A b \in of(n) : b.value = {} /\ b.secret \in kcloud
                /\ \A b \in env : b.secret # "none" => b.value = {}
                /\ \E b \in of("POSTGRES_HOST") : a.postgres_ip \in b.value
                /\ \E b \in of("NEO4J_URI") : a.neo4j_bolt_url \in b.value

\* the application service was created, on the branch that adopts the
\* caller's graph database
C31_Witness ==
    /\ MemService \in kcloud
    /\ StackUsesAura(kreq)
    /\ kpc = "k_validate"


(***************************************************************************)
(* C32: after a successful stop_instance the minimum replicas of the       *)
(* application service is 0 and the record is (stopped, 0); after a        *)
(* successful start_instance it is 1 and the record is (running, 1); in    *)
(* both the control-plane update has succeeded before the record is        *)
(* changed.                                                                *)
(***************************************************************************)
C32_ScaleConsistent ==
    [][\A i \in Scalers :
          (spc[i] = "write" /\ spc'[i] = "idle" /\ sresp'[i] = 200) =>
              /\ supdated[i]
              /\ inst'.status = ScaleStatus(sop[i])
              /\ inst'.min_instances = ScaleTarget(sop[i])
              /\ minReplicas' = ScaleTarget(sop[i])]_vars


(***************************************************************************)
(* C37: start_instance and stop_instance change the record only when the   *)
(* precondition status holds (stopped for start, running for stop) and the *)
(* control-plane update succeeded; a request in any other status is        *)
(* rejected with 400 without a control-plane call; when the control-plane  *)
(* update fails, status and min_instances are unchanged.                   *)
(***************************************************************************)
C37_ScaleGuarded ==
    [][\A i \in Scalers :
          /\ (spc[i] = "write" /\ spc'[i] = "idle" /\ inst' # inst) =>
                 /\ inst.status = ScalePrecondition(sop[i])
                 /\ supdated[i]
          /\ (spc[i] = "idle" /\ sresp'[i] # sresp[i]
                 /\ inst.status # ScalePrecondition(sop'[i])) =>
                 /\ sresp'[i] = 400
                 /\ spc'[i] = "idle"
                 /\ minReplicas' = minReplicas
          /\ (spc[i] = "update" /\ spc'[i] = "idle") =>
                 /\ sresp'[i] = 500
                 /\ inst'.status = inst.status
                 /\ inst'.min_instances = inst.min_instances]_vars


====
